---- MODULE Spec2Model ----
(***************************************************************************)
(* Habit-Tracker: the habit analytics engine.                              *)
(*   calculateStreaks               (lib/streaks.ts,   src/unnamed/part_007)*)
(*   calculateCompletionPercentage  (lib/analytics.ts,                      *)
(*                                   src/app/sign-in/[[...sign-in]]/page.tsx)*)
(* A Date is modelled by its time value: milliseconds since the epoch, or   *)
(* NaN for an Invalid Date.  Numbers are integers or NaN.                   *)
(***************************************************************************)
EXTENDS Integers, Sequences, FiniteSets, TLC

VARIABLES
    habitRecords,   \* the record collection handed to the engine: Seq([date, completed])
    absent,         \* TRUE when the collection argument is null/undefined
    now,            \* the clock at the first read  (new Date(),   part_007:145)
    now2,           \* the clock at the second read (Date.now(),   part_007:146)
    startDate,      \* window start handed to calculateCompletionPercentage
    endDate,        \* window end handed to calculateCompletionPercentage
    pc,             \* "ready", "streaks" (calculateStreaks returned), "percentage"
    streakResult,   \* the StreakResult returned
    percentage,     \* the number returned by calculateCompletionPercentage
    outcome,        \* "none", "returned", or "threw" when the call raised an error
    previous,       \* clock, outcome and results of the invocation before this one
    stamps,         \* a pair of timestamps handed to getUTCDate, or <<>>
    normalized,     \* the pair of values getUTCDate returned for them, or <<>>
    users,          \* the User table: the ids of its rows
    habits,         \* the Habit table: rows [id, userId, name, categoryId]
    categories,     \* the Category table: rows [id, userId, name]
    storedRecords,  \* the HabitRecord table: rows [id, habitId, date, completed]
    created,        \* how many habits and categories were ever created (ids are fresh)
    calls,          \* the server-action calls and page renders in flight
    started,        \* how many calls were started so far
    lastToggle,     \* per (habitId, date): `completed` of the latest committed toggle
    component,      \* the version of HabitCheckbox that is mounted, or "none"
    initialCompleted, \* the prop handed over by the page
    isChecked,      \* the state the checkbox shows (isCompleted in HabitCheckbox.tsx)
    isPending,      \* isPending of useTransition
    requests,       \* the toggleHabitCompletion calls of the checkbox in flight
    toggleResult    \* the toggle that settled last, and how

engineVars ==
    <<habitRecords, absent, now, now2, startDate, endDate, pc, streakResult, percentage,
      outcome, previous>>
dateVars == <<stamps, normalized>>
storeVars ==
    <<users, habits, categories, storedRecords, created, calls, started, lastToggle>>
checkboxVars ==
    <<component, initialCompleted, isChecked, isPending, requests, toggleResult>>
vars == <<engineVars, dateVars, storeVars, checkboxVars>>

----------------------------------------------------------------------------
(* Bounds of the model *)

\* longest record collection handed to calculateStreaks
MaxRecords == 3
\* longest record collection handed to an engine function twice
MaxCallRecords == 2
\* longest record collection handed to calculateCompletionPercentage
MaxPctRecords == 2
\* record dates and window bounds fall on the UTC days 0..MaxDay
MaxDay == 2
\* habits ever created in the database
MaxHabits == 2
\* categories ever created in the database
MaxCategories == 2
\* toggled dates fall on the UTC days 0..MaxStoreDay
MaxStoreDay == 1
\* server-action calls in flight at the same time
MaxCalls == 2
\* server-action calls started in one behaviour
MaxStarted == 4

----------------------------------------------------------------------------
(* Numbers and dates *)

\* 1000 * 60 * 60 * 24, the milliseconds of a day
MsPerDay == 86400000
\* a time of day that is not midnight (12:00:00.000 UTC)
Noon == MsPerDay \div 2
\* times of day less than half a day after and before midnight (01:00, 23:00 UTC)
Early == MsPerDay \div 24
Late == MsPerDay - Early
\* the IEEE NaN: the time value of an Invalid Date.  It is outside the range
\* of every time value and difference of the model.
NaN == -2000000000
\* a value that is not a Date instance (null / undefined)
NotADate == -2000000001

isNaN(x) == x = NaN

\* JavaScript ===, !==, <=, >, >=, - and + on numbers: every comparison with NaN
\* is false (!== is true), arithmetic on NaN is NaN.
StrictEq(a, b) == ~isNaN(a) /\ ~isNaN(b) /\ a = b
StrictNeq(a, b) == ~StrictEq(a, b)
Le(a, b) == ~isNaN(a) /\ ~isNaN(b) /\ a <= b
Gt(a, b) == ~isNaN(a) /\ ~isNaN(b) /\ a > b
Ge(a, b) == ~isNaN(a) /\ ~isNaN(b) /\ a >= b
Minus(a, b) == IF isNaN(a) \/ isNaN(b) THEN NaN ELSE a - b
Plus(a, b) == IF isNaN(a) \/ isNaN(b) THEN NaN ELSE a + b
MathAbs(a) == IF isNaN(a) THEN NaN ELSE IF a < 0 THEN -a ELSE a

\* Math.round(num / den) for den > 0: the nearest integer, a tie going up
\* (floor(x + 1/2)).  NaN when an operand is NaN.
MathRoundDiv(num, den) ==
    IF isNaN(num) \/ isNaN(den) THEN NaN
    ELSE (2 * num + den) \div (2 * den)

\* Date.UTC(getUTCFullYear(), getUTCMonth(), getUTCDate()): the midnight that
\* starts the UTC day of a time value
\* getUTCFullYear(), getUTCMonth() (0 = January) and getUTCDate() of a time
\* value on day number z (days since 1970-01-01, proleptic Gregorian calendar)
getUTCFields(z) ==
    LET shifted == z + 719468
        era == shifted \div 146097
        doe == shifted - era * 146097
        yoe == (doe - doe \div 1460 + doe \div 36524 - doe \div 146096) \div 365
        doy == doe - (365 * yoe + yoe \div 4 - yoe \div 100)
        mp == (5 * doy + 2) \div 153
        m == IF mp < 10 THEN mp + 3 ELSE mp - 9
    IN  [year |-> yoe + era * 400 + (IF m <= 2 THEN 1 ELSE 0),
         month |-> m - 1,
         date |-> doy - (153 * mp + 2) \div 5 + 1]

\* the year Date.UTC makes of its first argument: 0..99 mean 1900..1999
MakeFullYear(year) == IF year \in 0..99 THEN 1900 + year ELSE year

\* the day number of the calendar date (year, month, date), month 0..11
MakeDay(year, month, date) ==
    LET y == IF month <= 1 THEN year - 1 ELSE year
        era == y \div 400
        yoe == y - era * 400
        mp == IF month <= 1 THEN month + 10 ELSE month - 2
        doy == (153 * mp + 2) \div 5 + date - 1
        doe == yoe * 365 + yoe \div 4 - yoe \div 100 + doy
    IN  era * 146097 + doe - 719468

\* the day number of Date.UTC(year, month, date)
DateUTC(year, month, date) == MakeDay(MakeFullYear(year), month, date)

\* the day number of Date.UTC(getUTCFullYear(), getUTCMonth(), getUTCDate())
\* for a time value on day number z
UTCDateOfDay(z) ==
    LET f == getUTCFields(z)
    IN  DateUTC(f.year, f.month, f.date)

\* UTCDateOfDay tabulated for the day numbers near the epoch
UTCDateNearEpoch == [z \in (0 - MsPerDay \div 3600000)..(MsPerDay \div 3600000) |-> UTCDateOfDay(z)]

\* the time value of getUTCDate(date) for the time value t
StartOfUTCDay(t) ==
    LET z == t \div MsPerDay
    IN  (IF z \in DOMAIN UTCDateNearEpoch THEN UTCDateNearEpoch[z] ELSE UTCDateOfDay(z))
            * MsPerDay

----------------------------------------------------------------------------
(* lib/streaks.ts *)

\* getUTCDate with the date handed back as it came
getUTCDateUnnormalized(date) == date

\* getUTCDate of lib/streaks.ts: no validity check; the UTC fields of an
\* Invalid Date are NaN, Date.UTC(NaN, NaN, NaN) is NaN.
getUTCDate(date) == IF isNaN(date) THEN NaN ELSE StartOfUTCDay(date)

\* getTodayUTC() evaluated when the clock reads `clock`
getTodayUTC(clock) == getUTCDate(clock)

areDatesConsecutive(date1, date2) ==
    LET diffTime == MathAbs(Minus(date2, date1))
        diffDays == MathRoundDiv(diffTime, MsPerDay)
    IN  StrictEq(diffDays, 1)

\* FilterCompleted with the filter left out: every record is kept
FilterNothing(records) == records

\* habitRecords.filter((record) => record.completed)
FilterCompleted(records) == SelectSeq(records, LAMBDA r : r.completed)

\* .filter(...).map((record) => getUTCDate(record.date)), before the sort
MapCompletedDates(records) ==
    LET kept == FilterCompleted(records)
    IN  [i \in 1..Len(kept) |-> getUTCDate(kept[i].date)]

RECURSIVE InsertAscending(_, _)
InsertAscending(x, s) ==
    IF s = <<>> THEN <<x>>
    ELSE IF x <= Head(s) THEN <<x>> \o s
    ELSE <<Head(s)>> \o InsertAscending(x, Tail(s))

RECURSIVE Ascending(_)
Ascending(s) == IF s = <<>> THEN <<>> ELSE InsertAscending(Head(s), Ascending(Tail(s)))

\* every arrangement of the elements of s
Arrangements(s) ==
    {[i \in 1..Len(s) |-> s[p[i]]] : p \in Permutations(1..Len(s))}

\* .sort((a, b) => a.getTime() - b.getTime()): the possible results.  With
\* valid dates only the comparator is consistent and the result is the
\* ascending order.  With an Invalid Date the comparator returns NaN (treated
\* as 0) against every element, it is not a consistent comparator, and
\* ECMAScript leaves the order implementation-defined: any arrangement.
SortOutcomes(dates) ==
    IF \E i \in 1..Len(dates) : isNaN(dates[i])
    THEN Arrangements(dates)
    ELSE {Ascending(dates)}

\* NextRun where a repeated day is counted again instead of being skipped
NextRunCountingRepeats(hasPrevious, previousDate, currentDate, currentRun) ==
    IF ~hasPrevious THEN 1
    ELSE IF areDatesConsecutive(previousDate, currentDate)
            \/ StrictEq(currentDate, previousDate)
         THEN currentRun + 1
         ELSE 1

\* one iteration of the longest-streak loop: the new currentRun
\* (hasPrevious is `previousDate` being non-null)
NextRun(hasPrevious, previousDate, currentDate, currentRun) ==
    IF hasPrevious /\ areDatesConsecutive(previousDate, currentDate)
    THEN currentRun + 1
    ELSE IF ~hasPrevious \/ StrictNeq(currentDate, previousDate)
         THEN 1
         ELSE currentRun

RECURSIVE LongestLoop(_, _, _, _)
LongestLoop(completedDates, i, currentRun, longestStreak) ==
    IF i > Len(completedDates) THEN longestStreak
    ELSE LET run == NextRun(i > 1, IF i > 1 THEN completedDates[i - 1] ELSE NaN,
                            completedDates[i], currentRun)
         IN  LongestLoop(completedDates, i + 1, run,
                         IF run > longestStreak THEN run ELSE longestStreak)

\* whether the backward walk counts recordDate (else it breaks)
WalkMatches(recordDate, dateToFind) == StrictEq(recordDate, dateToFind)

RECURSIVE BackwardWalk(_, _, _, _)
BackwardWalk(completedDates, i, dateToFind, currentStreak) ==
    IF i < 1 THEN currentStreak
    ELSE IF WalkMatches(completedDates[i], dateToFind)
         THEN BackwardWalk(completedDates, i - 1,
                           getUTCDate(Minus(completedDates[i], MsPerDay)),
                           currentStreak + 1)
         ELSE currentStreak

\* whether a current streak is alive: the last completed date is today or yesterday
IsAlive(lastCompletedDate, today, yesterday) ==
    StrictEq(lastCompletedDate, today) \/ StrictEq(lastCompletedDate, yesterday)

CurrentStreakOf(completedDates, clock1, clock2) ==
    LET today == getTodayUTC(clock1)
        yesterday == getUTCDate(Minus(clock2, MsPerDay))
        lastCompletedDate == completedDates[Len(completedDates)]
    IN  IF IsAlive(lastCompletedDate, today, yesterday)
        THEN BackwardWalk(completedDates, Len(completedDates) - 1,
                          getUTCDate(Minus(lastCompletedDate, MsPerDay)), 1)
        ELSE 0

\* the part of calculateStreaks after the sort
StreaksOfSorted(completedDates, clock1, clock2) ==
    IF Len(completedDates) = 0
    THEN [currentStreak |-> 0, longestStreak |-> 0]
    ELSE [currentStreak |-> CurrentStreakOf(completedDates, clock1, clock2),
          longestStreak |-> LongestLoop(completedDates, 1, 0, 0)]

\* calculateStreaks(habitRecords) with the clock reading clock1 then clock2:
\* the results it can return (one per outcome of the sort)
calculateStreaks(isAbsent, records, clock1, clock2) ==
    IF isAbsent \/ Len(records) = 0
    THEN {[currentStreak |-> 0, longestStreak |-> 0]}
    ELSE {StreaksOfSorted(sorted, clock1, clock2) :
             sorted \in SortOutcomes(MapCompletedDates(records))}

\* whether getUTCDate(date) raises a TypeError: date is not a Date object
\* (null, undefined, a string), so date.getUTCFullYear cannot be called
getUTCDateThrows(date) == date = NotADate

\* whether calculateStreaks(habitRecords) raises an error: the map over the
\* completed records calls getUTCDate on a date that is not a Date
calculateStreaksThrows(isAbsent, records) ==
    /\ ~isAbsent
    /\ \E i \in 1..Len(records) : records[i].completed /\ getUTCDateThrows(records[i].date)

\* a later calculateStreaks(habitRecords) on the same collection by the same
\* build, whose sort arranged the dates so that the earlier call returned
\* `first` when the clock read earlier1 then earlier2
calculateStreaksAgain(isAbsent, records, earlier1, earlier2, first, clock1, clock2) ==
    IF isAbsent \/ Len(records) = 0
    THEN {[currentStreak |-> 0, longestStreak |-> 0]}
    ELSE {StreaksOfSorted(sorted, clock1, clock2) :
             sorted \in {t \in SortOutcomes(MapCompletedDates(records)) :
                           StreaksOfSorted(t, earlier1, earlier2) = first}}

----------------------------------------------------------------------------
(* lib/analytics.ts *)

\* getUTCDate of lib/analytics.ts: an invalid date gives new Date(NaN)
getUTCDateAnalytics(date) ==
    IF date = NotADate \/ isNaN(date) THEN NaN ELSE StartOfUTCDay(date)

\* InvalidInput without the isNaN(endDate.getTime()) check
InvalidInputEndUnchecked(isAbsent, start, end) ==
    \/ isAbsent
    \/ start = NotADate
    \/ isNaN(start)
    \/ end = NotADate
    \/ Gt(start, end)

\* the input validation: TRUE when the call returns 0 at once
InvalidInput(isAbsent, start, end) ==
    \/ isAbsent
    \/ start = NotADate
    \/ isNaN(start)
    \/ end = NotADate
    \/ isNaN(end)
    \/ Gt(start, end)

\* TotalDaysInPeriod without the + 1 of the inclusive range
TotalDaysExclusive(start, end) ==
    MathRoundDiv(Minus(end, start), MsPerDay)

TotalDaysInPeriod(start, end) ==
    LET diffTime == Minus(end, start)
    IN  Plus(MathRoundDiv(diffTime, MsPerDay), 1)

\* CountsInPeriod without the upper bound of the window
CountsFromStart(record, start, end) ==
    /\ ~(record.date = NotADate \/ isNaN(record.date))
    /\ Ge(getUTCDateAnalytics(record.date), start)
    /\ record.completed

\* CountsInPeriod without the lower bound of the window
CountsUpToEnd(record, start, end) ==
    /\ ~(record.date = NotADate \/ isNaN(record.date))
    /\ Le(getUTCDateAnalytics(record.date), end)
    /\ record.completed

\* whether the loop adds this record's day to uniqueCompletedDays
CountsInPeriod(record, start, end) ==
    /\ ~(record.date = NotADate \/ isNaN(record.date))
    /\ LET recordTime == getUTCDateAnalytics(record.date)
       IN  /\ Ge(recordTime, start)
           /\ Le(recordTime, end)
           /\ record.completed

\* the Set built by the loop over habitRecords
UniqueCompletedDays(records, start, end) ==
    {getUTCDateAnalytics(records[i].date) :
        i \in {j \in 1..Len(records) : CountsInPeriod(records[j], start, end)}}

\* Math.round((completedCount / totalDaysInPeriod) * 100)
RoundPercentage(completedCount, totalDaysInPeriod) ==
    IF isNaN(totalDaysInPeriod) THEN NaN
    ELSE MathRoundDiv(completedCount * 100, totalDaysInPeriod)

calculateCompletionPercentage(isAbsent, records, start, end) ==
    IF InvalidInput(isAbsent, start, end) THEN 0
    ELSE LET totalDaysInPeriod == TotalDaysInPeriod(start, end)
         IN  IF Le(totalDaysInPeriod, 0) THEN 0
             ELSE RoundPercentage(
                      Cardinality(UniqueCompletedDays(records, start, end)),
                      totalDaysInPeriod)

----------------------------------------------------------------------------
(* The inputs of the engine *)

Days == 0..MaxDay

\* valid time values: midnight and noon of every day
ValidDates == {d * MsPerDay + tod : d \in Days, tod \in {0, Noon}}

\* the dates of records: valid ones and the Invalid Date
RecordDates == ValidDates \cup {NaN}

HabitRecord == [date : RecordDates, completed : BOOLEAN]

RECURSIVE SeqsUpTo(_, _)
SeqsUpTo(S, n) ==
    IF n = 0 THEN {<<>>}
    ELSE LET shorter == SeqsUpTo(S, n - 1)
         IN  shorter \cup {Append(s, x) : s \in {t \in shorter : Len(t) = n - 1}, x \in S}

\* the two clock reads of one calculateStreaks call: today is the day before
\* the last record day (so that a record can lie in the future), that day or
\* the day after it; the reads agree, or midnight passes between them.
ClockReads ==
    UNION {{<<d * MsPerDay + Noon, d * MsPerDay + Noon>>,
            <<d * MsPerDay + (MsPerDay - 1), (d + 1) * MsPerDay>>} :
              d \in {MaxDay - 1, MaxDay, MaxDay + 1}}

\* the window bounds handed to calculateCompletionPercentage
WindowDates ==
    {d * MsPerDay + tod : d \in Days, tod \in {0, Early, Late}} \cup {NaN, NotADate}

NoResult == [currentStreak |-> 0, longestStreak |-> 0]

\* the signed-in users (Clerk user ids)
Users == {"alice", "bob"}

\* auth() resolves without a user id / auth() throws
NoUserId == "no user id"
AuthThrows == "auth throws"

\* null (a habit without category, an argument that is the empty string)
Null == 0

Calls == 1..MaxCalls

\* a slot with no call in it
Idle ==
    [action |-> "idle", pc |-> "idle", userId |-> NoUserId, habitId |-> Null,
     categoryId |-> Null, name |-> "", categoryName |-> <<>>, date |-> 0,
     completed |-> FALSE, found |-> FALSE, dbAccess |-> FALSE,
     result |-> [success |-> FALSE, errors |-> "none", message |-> "none"],
     view |-> <<>>]

\* an empty database and no call in flight
StoreIdle ==
    /\ users = {}
    /\ habits = {}
    /\ categories = {}
    /\ storedRecords = {}
    /\ created = [habits |-> 0, categories |-> 0]
    /\ calls = [c \in Calls |-> Idle]
    /\ started = 0
    /\ lastToggle = {}

NoPrevious ==
    [outcome |-> "none", now |-> 0, now2 |-> 0, streakResult |-> NoResult, percentage |-> 0]

\* no pair of timestamps is being normalized
DatesIdle == stamps = <<>> /\ normalized = <<>>

\* no toggle has settled yet
NoToggleResult ==
    [completed |-> FALSE, before |-> FALSE, resynced |-> FALSE, threw |-> FALSE,
     result |-> Idle.result]

\* no checkbox is mounted
CheckboxIdle ==
    /\ component = "none"
    /\ initialCompleted = FALSE
    /\ isChecked = FALSE
    /\ isPending = FALSE
    /\ requests = <<>>
    /\ toggleResult = NoToggleResult

Init ==
    /\ absent \in BOOLEAN
    /\ habitRecords \in (IF absent THEN {<<>>} ELSE SeqsUpTo(HabitRecord, MaxRecords))
    /\ now = 0
    /\ now2 = 0
    /\ startDate = NotADate
    /\ endDate = NotADate
    /\ pc = "ready"
    /\ streakResult = NoResult
    /\ percentage = 0
    /\ outcome = "none"
    /\ previous = NoPrevious
    /\ DatesIdle
    /\ StoreIdle
    /\ CheckboxIdle

\* a call of calculateStreaks(habitRecords)
CalculateStreaks ==
    /\ pc = "ready"
    /\ IF calculateStreaksThrows(absent, habitRecords)
       THEN /\ outcome' = "threw"
            /\ UNCHANGED <<now, now2, streakResult>>
       ELSE /\ outcome' = "returned"
            /\ \E clock \in ClockReads :
                 /\ now' = clock[1]
                 /\ now2' = clock[2]
                 /\ streakResult' \in
                        calculateStreaks(absent, habitRecords, clock[1], clock[2])
    /\ pc' = "streaks"
    /\ UNCHANGED <<habitRecords, absent, startDate, endDate, percentage, previous>>
    /\ UNCHANGED <<dateVars, storeVars, checkboxVars>>

\* a call of calculateCompletionPercentage(habitRecords, startDate, endDate)
CalculateCompletionPercentage ==
    /\ pc = "ready"
    /\ Len(habitRecords) <= MaxPctRecords
    /\ \E start \in WindowDates, end \in WindowDates :
         /\ startDate' = start
         /\ endDate' = end
         /\ percentage' = calculateCompletionPercentage(absent, habitRecords, start, end)
    /\ outcome' = "returned"
    /\ pc' = "percentage"
    /\ UNCHANGED <<habitRecords, absent, now, now2, streakResult, previous>>
    /\ UNCHANGED <<dateVars, storeVars, checkboxVars>>

Next == CalculateStreaks \/ CalculateCompletionPercentage

Spec == Init /\ [][Next]_vars

----------------------------------------------------------------------------
(* Two invocations of an engine function on the same arguments, time passing
   between them; record dates may be values that are not Date objects. *)

\* the dates of records as the engine can be handed them
AnyRecordDates == RecordDates \cup {NotADate}

AnyHabitRecord == [date : AnyRecordDates, completed : BOOLEAN]

\* the clock reads of a call that starts when the clock reads t or later
ClockReadsFrom(t) ==
    {clock \in ClockReads \cup
                {<<d * MsPerDay + Late, d * MsPerDay + Late>> :
                    d \in {MaxDay - 1, MaxDay, MaxDay + 1}} :
        clock[1] >= t}

InitCalls ==
    /\ absent \in BOOLEAN
    /\ habitRecords \in
          (IF absent THEN {<<>>} ELSE SeqsUpTo(AnyHabitRecord, MaxCallRecords))
    /\ now = 0
    /\ now2 = 0
    /\ startDate = NotADate
    /\ endDate = NotADate
    /\ pc = "ready"
    /\ streakResult = NoResult
    /\ percentage = 0
    /\ outcome = "none"
    /\ previous = NoPrevious
    /\ DatesIdle
    /\ StoreIdle
    /\ CheckboxIdle

ThisInvocation ==
    [outcome |-> outcome, now |-> now, now2 |-> now2,
     streakResult |-> streakResult, percentage |-> percentage]

\* a second call of calculateStreaks(habitRecords), later than the first
CalculateStreaksAgain ==
    /\ pc = "streaks"
    /\ previous' = ThisInvocation
    /\ IF calculateStreaksThrows(absent, habitRecords)
       THEN /\ outcome' = "threw"
            /\ UNCHANGED <<now, now2, streakResult>>
       ELSE /\ outcome' = "returned"
            /\ \E clock \in ClockReadsFrom(now2) :
                 /\ now' = clock[1]
                 /\ now2' = clock[2]
                 /\ streakResult' \in
                        calculateStreaksAgain(absent, habitRecords, now, now2,
                                              streakResult, clock[1], clock[2])
    /\ pc' = "streaksAgain"
    /\ UNCHANGED <<habitRecords, absent, startDate, endDate, percentage>>
    /\ UNCHANGED <<dateVars, storeVars, checkboxVars>>

\* a second call of calculateCompletionPercentage with the same arguments
CalculateCompletionPercentageAgain ==
    /\ pc = "percentage"
    /\ previous' = ThisInvocation
    /\ percentage' =
          calculateCompletionPercentage(absent, habitRecords, startDate, endDate)
    /\ outcome' = "returned"
    /\ pc' = "percentageAgain"
    /\ UNCHANGED <<habitRecords, absent, now, now2, startDate, endDate, streakResult>>
    /\ UNCHANGED <<dateVars, storeVars, checkboxVars>>

NextCalls ==
    \/ CalculateStreaks
    \/ CalculateCompletionPercentage
    \/ CalculateStreaksAgain
    \/ CalculateCompletionPercentageAgain

SpecCalls == InitCalls /\ [][NextCalls]_vars

----------------------------------------------------------------------------
(* Date normalization over the whole calendar.  A timestamp is written as
   its day number and the milliseconds of its day. *)

\* getUTCDate(date) of lib/streaks.ts for a valid timestamp
getUTCDateOfStamp(stamp) == [day |-> UTCDateOfDay(stamp.day), ms |-> 0]

\* date1.getTime() < date2.getTime()
StampBefore(stamp1, stamp2) ==
    \/ stamp1.day < stamp2.day
    \/ stamp1.day = stamp2.day /\ stamp1.ms < stamp2.ms

\* calendar dates <<year, month, date>> (month 0 = January) in and around
\* the first century, around the epoch, and around a leap day
CalendarDates ==
    {<<0 - 1, 11, 31>>, <<0, 0, 1>>, <<50, 5, 15>>, <<99, 11, 31>>, <<100, 0, 1>>,
     <<1950, 5, 15>>, <<1969, 11, 31>>, <<1970, 0, 1>>, <<1999, 11, 31>>,
     <<2024, 1, 28>>, <<2024, 1, 29>>, <<2024, 2, 1>>}

Stamps ==
    {[day |-> MakeDay(c[1], c[2], c[3]), ms |-> tod] :
        c \in CalendarDates, tod \in {0, Noon, MsPerDay - 1}}

NoEngineCall ==
    /\ absent = FALSE
    /\ habitRecords = <<>>
    /\ now = 0
    /\ now2 = 0
    /\ startDate = NotADate
    /\ endDate = NotADate
    /\ pc = "idle"
    /\ streakResult = NoResult
    /\ percentage = 0
    /\ outcome = "none"
    /\ previous = NoPrevious

InitDates ==
    /\ NoEngineCall
    /\ StoreIdle
    /\ CheckboxIdle
    /\ stamps \in Stamps \X Stamps
    /\ normalized = <<>>

\* getUTCDate applied to both timestamps
NormalizeDates ==
    /\ stamps # <<>>
    /\ normalized = <<>>
    /\ normalized' = <<getUTCDateOfStamp(stamps[1]), getUTCDateOfStamp(stamps[2])>>
    /\ UNCHANGED <<stamps, engineVars, storeVars, checkboxVars>>

NextDates == NormalizeDates

SpecDates == InitDates /\ [][NextDates]_vars

----------------------------------------------------------------------------
(* app/actions/habits.ts: the server actions, over the tables of the
   database.  A call is a sequence of steps; between the database queries of
   one call the steps of other calls can take place. *)

HabitIds == 1..MaxHabits
CategoryIds == 1..MaxCategories
StoreDays == 0..MaxStoreDay

\* what auth() can give: a user id, no user id, or an error
Sessions == Users \cup {NoUserId, AuthThrows}

\* the habit names a form can carry; the empty one fails the schema
HabitNames == {"run", "read", ""}

\* the category names a form can carry, as sequences of characters
CategoryNames == {<<"a">>, <<"a", " ">>, <<"b">>, <<>>}

\* the dates a toggle can carry: midnight or noon of a day, or an Invalid Date
ToggleDates == {d * MsPerDay + tod : d \in StoreDays, tod \in {0, Noon}} \cup {NaN}

\* getStartOfDayUTC with the time of day left in place
KeepTimeOfDay(date) == date

\* getStartOfDayUTC: start.setUTCHours(0, 0, 0, 0)
getStartOfDayUTC(date) == date - (date % MsPerDay)

RECURSIVE TrimStart(_)
TrimStart(name) ==
    IF name # <<>> /\ Head(name) = " " THEN TrimStart(Tail(name)) ELSE name

RECURSIVE TrimEnd(_)
TrimEnd(name) ==
    IF name # <<>> /\ name[Len(name)] = " "
    THEN TrimEnd(SubSeq(name, 1, Len(name) - 1))
    ELSE name

\* z.string()....trim()
Trim(name) == TrimEnd(TrimStart(name))

\* the authentication block with an error of auth() taken for a signed-in user
AuthFailsWithoutUserId(session) == session = NoUserId

\* the authentication block fails: auth() gave no user id, or threw
AuthFails(session) == session \notin Users

\* !habitId || typeof habitId !== 'string'  (and z.string().min(1))
IdInvalid(id) == id = Null

\* ToggleHabitSchema.safeParse fails: empty habit id, or z.date() on an Invalid Date
ToggleInputInvalid(habitId, date) == IdInvalid(habitId) \/ isNaN(date)

\* HabitSchema / EditHabitSchema .safeParse fails: name .min(1)
HabitFormInvalid(name) == name = ""

\* CreateCategorySchema.safeParse fails: name .min(1)
CategoryFormInvalid(name) == Len(name) < 1

\* the results a server action returns
AuthFailed == [success |-> FALSE, errors |-> "_form", message |-> "Authentication failed."]
ValidationFailed == [success |-> FALSE, errors |-> "field", message |-> "Invalid input."]
PermissionDenied ==
    [success |-> FALSE, errors |-> "_form", message |-> "Permission Denied or Not Found."]
AlreadyExists == [success |-> FALSE, errors |-> "name", message |-> "Category already exists."]
DatabaseError == [success |-> FALSE, errors |-> "_form", message |-> "Database Error."]
Succeeded == [success |-> TRUE, errors |-> "none", message |-> "ok"]

\* the call has returned `result`; its arguments are no longer needed
Done(call, result) ==
    [Idle EXCEPT !.action = call.action, !.pc = "done", !.userId = call.userId,
                 !.dbAccess = call.dbAccess, !.result = result]

\* a new call of `action` under `session`
NewCall(action, session) == [Idle EXCEPT !.action = action, !.userId = session]

\* the first step of every server action: authentication, then validation of
\* the arguments; no query has been sent yet
FirstStep(call, invalid, next) ==
    IF AuthFails(call.userId) THEN Done(call, AuthFailed)
    ELSE IF invalid THEN Done(call, ValidationFailed)
    ELSE [call EXCEPT !.pc = next]

\* prisma.habit.findUnique({ where: { id, userId } })
HabitFindUnique(id, userId) == {h \in habits : h.id = id /\ h.userId = userId}

\* prisma.category.findUnique({ where: { id, userId } })
CategoryFindUnique(id, userId) == {g \in categories : g.id = id /\ g.userId = userId}

\* CategoryFindByName finding no row
CategoryFindNoRow(userId, name) == {}

\* prisma.category.findUnique({ where: { userId_name: { userId, name } } })
CategoryFindByName(userId, name) ==
    {g \in categories : g.userId = userId /\ g.name = name}

\* RecordFindUnique matching on the habit alone
RecordFindByHabit(habitId, date) == {r \in storedRecords : r.habitId = habitId}

\* prisma.habitRecord: the rows of (habitId, date)
RecordFindUnique(habitId, date) ==
    {r \in storedRecords : r.habitId = habitId /\ r.date = date}

\* the calls that may still create a row of the kind `action` creates
Creating(action) == {c \in Calls : calls[c].action = action /\ calls[c].pc # "done"}

tablesUnchanged == UNCHANGED <<users, habits, categories, storedRecords, created, lastToggle>>

engineUnchanged == UNCHANGED <<engineVars, dateVars, started, checkboxVars>>

\* a call starts in the slot c, which is free
Starts(c) ==
    /\ calls[c].pc = "idle"
    /\ started < MaxStarted
    /\ started' = started + 1
    /\ tablesUnchanged
    /\ UNCHANGED <<engineVars, dateVars, checkboxVars>>

\* deleteHabit(habitId): authentication and validation of the id
DeleteHabit(c) ==
    /\ Starts(c)
    /\ \E session \in Sessions, habitId \in HabitIds \cup {Null} :
         calls' = [calls EXCEPT ![c] =
                     FirstStep([NewCall("deleteHabit", session) EXCEPT !.habitId = habitId],
                               IdInvalid(habitId), "habit.findUnique")]

\* deleteHabit: the ownership query, and the return when it finds nothing
DeleteHabitFindUnique(c) ==
    /\ calls[c].action = "deleteHabit"
    /\ calls[c].pc = "habit.findUnique"
    /\ LET call == [calls[c] EXCEPT !.dbAccess = TRUE]
       IN  calls' = [calls EXCEPT ![c] =
                       IF HabitFindUnique(call.habitId, call.userId) = {}
                       THEN Done(call, PermissionDenied)
                       ELSE [call EXCEPT !.pc = "habit.delete"]]
    /\ tablesUnchanged
    /\ engineUnchanged

\* the HabitRecord table left as it is when a habit is deleted
CascadeSkipped(habitId) == storedRecords

\* habit Habit @relation(fields: [habitId], references: [id], onDelete: Cascade)
Cascade(habitId) == {r \in storedRecords : r.habitId # habitId}

\* deleteHabit: prisma.habit.delete({ where: { id } }); the records of the
\* habit go with it (onDelete: Cascade); an id without a row is an error
DeleteHabitDelete(c) ==
    /\ calls[c].action = "deleteHabit"
    /\ calls[c].pc = "habit.delete"
    /\ LET call == calls[c]
           row == {h \in habits : h.id = call.habitId}
       IN  IF row = {}
           THEN /\ calls' = [calls EXCEPT ![c] = Done(call, DatabaseError)]
                /\ UNCHANGED <<habits, storedRecords, lastToggle>>
           ELSE /\ habits' = habits \ row
                /\ storedRecords' = Cascade(call.habitId)
                /\ lastToggle' = {t \in lastToggle : t.habitId # call.habitId}
                /\ calls' = [calls EXCEPT ![c] = Done(call, Succeeded)]
    /\ UNCHANGED <<users, categories, created>>
    /\ engineUnchanged

\* editHabit(habitId, formData): authentication and the two validations
EditHabit(c) ==
    /\ Starts(c)
    /\ \E session \in Sessions, habitId \in HabitIds \cup {Null},
          name \in HabitNames, categoryId \in CategoryIds \cup {Null} :
         calls' = [calls EXCEPT ![c] =
                     FirstStep([NewCall("editHabit", session) EXCEPT
                                   !.habitId = habitId, !.name = name,
                                   !.categoryId = categoryId],
                               IdInvalid(habitId) \/ HabitFormInvalid(name),
                               "habit.findUnique")]

\* editHabit: the ownership query, and the return when it finds nothing
EditHabitFindUnique(c) ==
    /\ calls[c].action = "editHabit"
    /\ calls[c].pc = "habit.findUnique"
    /\ LET call == [calls[c] EXCEPT !.dbAccess = TRUE]
       IN  calls' = [calls EXCEPT ![c] =
                       IF HabitFindUnique(call.habitId, call.userId) = {}
                       THEN Done(call, PermissionDenied)
                       ELSE [call EXCEPT !.pc = "habit.update"]]
    /\ tablesUnchanged
    /\ engineUnchanged

\* editHabit: prisma.habit.update({ where: { id }, data: { name, ...,
\* categoryId: categoryId || null } }); an id without a row, or a categoryId
\* without a Category row (Habit_categoryId_fkey), is an error
EditHabitUpdate(c) ==
    /\ calls[c].action = "editHabit"
    /\ calls[c].pc = "habit.update"
    /\ LET call == calls[c]
           row == {h \in habits : h.id = call.habitId}
           noCategory == /\ call.categoryId # Null
                         /\ ~\E g \in categories : g.id = call.categoryId
       IN  IF row = {} \/ noCategory
           THEN /\ calls' = [calls EXCEPT ![c] = Done(call, DatabaseError)]
                /\ UNCHANGED habits
           ELSE /\ habits' = (habits \ row) \cup
                       {[h EXCEPT !.name = call.name, !.categoryId = call.categoryId] :
                           h \in row}
                /\ calls' = [calls EXCEPT ![c] = Done(call, Succeeded)]
    /\ UNCHANGED <<users, categories, storedRecords, created, lastToggle>>
    /\ engineUnchanged

\* the update branch of the upsert leaving the row as it is
UpdatedRecordUntouched(row, completed) == row

\* update: { completed: newCompletedState }
UpdatedRecord(row, completed) == [row EXCEPT !.completed = completed]

\* create: { habitId, date: targetDateStart, completed }; the id is fresh
CreatedRecord(habitId, date, completed) ==
    [id |-> 1 + Cardinality(RecordFindUnique(habitId, date)),
     habitId |-> habitId, date |-> date, completed |-> completed]

\* the toggle of (habitId, date) to `completed` is the latest committed one
Toggled(habitId, date, completed) ==
    {t \in lastToggle : ~(t.habitId = habitId /\ t.date = date)}
        \cup {[habitId |-> habitId, date |-> date, completed |-> completed]}

\* toggleHabitCompletion(habitId, date, completed): authentication,
\* validation, and the normalization of the date to the start of its UTC day
ToggleHabitCompletion(c) ==
    /\ Starts(c)
    /\ \E session \in Sessions, habitId \in HabitIds \cup {Null},
          date \in ToggleDates, completed \in BOOLEAN :
         calls' = [calls EXCEPT ![c] =
                     FirstStep([NewCall("toggleHabitCompletion", session) EXCEPT
                                   !.habitId = habitId,
                                   !.date = IF isNaN(date) THEN NaN
                                            ELSE getStartOfDayUTC(date),
                                   !.completed = completed],
                               ToggleInputInvalid(habitId, date),
                               "habit.findUnique")]

\* toggleHabitCompletion: the ownership query, and the return when it finds nothing
ToggleFindUnique(c) ==
    /\ calls[c].action = "toggleHabitCompletion"
    /\ calls[c].pc = "habit.findUnique"
    /\ LET call == [calls[c] EXCEPT !.dbAccess = TRUE]
       IN  calls' = [calls EXCEPT ![c] =
                       IF HabitFindUnique(call.habitId, call.userId) = {}
                       THEN Done(call, PermissionDenied)
                       ELSE [call EXCEPT !.pc = "habitRecord.upsert"]]
    /\ tablesUnchanged
    /\ engineUnchanged

\* toggleHabitCompletion: prisma.habitRecord.upsert carried out by the
\* database in one statement (INSERT ... ON CONFLICT DO UPDATE); a habitId
\* without a Habit row is an error (the relation of HabitRecord to Habit)
ToggleUpsert(c) ==
    /\ calls[c].action = "toggleHabitCompletion"
    /\ calls[c].pc = "habitRecord.upsert"
    /\ LET call == calls[c]
           existing == RecordFindUnique(call.habitId, call.date)
       IN  IF existing = {} /\ ~\E h \in habits : h.id = call.habitId
           THEN /\ calls' = [calls EXCEPT ![c] = Done(call, DatabaseError)]
                /\ UNCHANGED <<storedRecords, lastToggle>>
           ELSE /\ storedRecords' =
                     IF existing # {}
                     THEN (storedRecords \ existing) \cup
                              {UpdatedRecord(r, call.completed) : r \in existing}
                     ELSE storedRecords \cup
                              {CreatedRecord(call.habitId, call.date, call.completed)}
                /\ lastToggle' = Toggled(call.habitId, call.date, call.completed)
                /\ calls' = [calls EXCEPT ![c] = Done(call, Succeeded)]
    /\ UNCHANGED <<users, habits, categories, created>>
    /\ engineUnchanged

\* toggleHabitCompletion: prisma.habitRecord.upsert carried out by the client
\* as a read followed by an update or a create; this is the read
ToggleUpsertRead(c) ==
    /\ calls[c].action = "toggleHabitCompletion"
    /\ calls[c].pc = "habitRecord.upsert"
    /\ calls' = [calls EXCEPT ![c] =
                   [calls[c] EXCEPT
                       !.pc = "habitRecord.write",
                       !.found = RecordFindUnique(calls[c].habitId, calls[c].date) # {}]]
    /\ tablesUnchanged
    /\ engineUnchanged

\* the update or create after the read: the update of a row that is gone,
\* the create for a habit that is gone, and the create of a second row for
\* (habitId, date) (@@unique([habitId, date])) are errors
ToggleUpsertWrite(c) ==
    /\ calls[c].action = "toggleHabitCompletion"
    /\ calls[c].pc = "habitRecord.write"
    /\ LET call == calls[c]
           existing == RecordFindUnique(call.habitId, call.date)
           failed == IF call.found
                     THEN existing = {}
                     ELSE \/ ~\E h \in habits : h.id = call.habitId
                          \/ existing # {}
       IN  IF failed
           THEN /\ calls' = [calls EXCEPT ![c] = Done(call, DatabaseError)]
                /\ UNCHANGED <<storedRecords, lastToggle>>
           ELSE /\ storedRecords' =
                     IF call.found
                     THEN (storedRecords \ existing) \cup
                              {UpdatedRecord(r, call.completed) : r \in existing}
                     ELSE storedRecords \cup
                              {CreatedRecord(call.habitId, call.date, call.completed)}
                /\ lastToggle' = Toggled(call.habitId, call.date, call.completed)
                /\ calls' = [calls EXCEPT ![c] = Done(call, Succeeded)]
    /\ UNCHANGED <<users, habits, categories, created>>
    /\ engineUnchanged

\* addHabitWithState(prevState, formData): authentication and validation
AddHabitWithState(c) ==
    /\ Starts(c)
    /\ created.habits + Cardinality(Creating("addHabitWithState")) < MaxHabits
    /\ \E session \in Sessions, name \in HabitNames :
         calls' = [calls EXCEPT ![c] =
                     FirstStep([NewCall("addHabitWithState", session) EXCEPT
                                   !.name = name],
                               HabitFormInvalid(name), "user.upsert")]

\* addHabitWithState: prisma.user.upsert({ where: { id: userId }, update: {}, create })
AddHabitUpsertUser(c) ==
    /\ calls[c].action = "addHabitWithState"
    /\ calls[c].pc = "user.upsert"
    /\ users' = users \cup {calls[c].userId}
    /\ calls' = [calls EXCEPT ![c] =
                   [calls[c] EXCEPT !.dbAccess = TRUE, !.pc = "habit.create"]]
    /\ UNCHANGED <<habits, categories, storedRecords, created, lastToggle>>
    /\ engineUnchanged

\* addHabitWithState: prisma.habit.create; the form entries read by the
\* action carry no categoryId, so the habit is created without category
AddHabitCreate(c) ==
    /\ calls[c].action = "addHabitWithState"
    /\ calls[c].pc = "habit.create"
    /\ LET call == calls[c]
       IN  IF call.userId \notin users
           THEN /\ calls' = [calls EXCEPT ![c] = Done(call, DatabaseError)]
                /\ UNCHANGED <<habits, created>>
           ELSE /\ habits' = habits \cup
                       {[id |-> created.habits + 1, userId |-> call.userId,
                         name |-> call.name, categoryId |-> Null]}
                /\ created' = [created EXCEPT !.habits = @ + 1]
                /\ calls' = [calls EXCEPT ![c] = Done(call, Succeeded)]
    /\ UNCHANGED <<users, categories, storedRecords, lastToggle>>
    /\ engineUnchanged

\* createCategory(categoryData): authentication, validation, and the trim
CreateCategory(c) ==
    /\ Starts(c)
    /\ created.categories + Cardinality(Creating("createCategory")) < MaxCategories
    /\ \E session \in Sessions, name \in CategoryNames :
         calls' = [calls EXCEPT ![c] =
                     FirstStep([NewCall("createCategory", session) EXCEPT
                                   !.categoryName = Trim(name)],
                               CategoryFormInvalid(name), "category.findUnique")]

\* createCategory: the query for a category of this user with this name
CreateCategoryFindUnique(c) ==
    /\ calls[c].action = "createCategory"
    /\ calls[c].pc = "category.findUnique"
    /\ LET call == [calls[c] EXCEPT !.dbAccess = TRUE]
       IN  calls' = [calls EXCEPT ![c] =
                       IF CategoryFindByName(call.userId, call.categoryName) # {}
                       THEN Done(call, AlreadyExists)
                       ELSE [call EXCEPT !.pc = "category.create"]]
    /\ tablesUnchanged
    /\ engineUnchanged

\* createCategory: prisma.category.create; a second row for (userId, name)
\* is an error (Category_userId_name_key)
CreateCategoryCreate(c) ==
    /\ calls[c].action = "createCategory"
    /\ calls[c].pc = "category.create"
    /\ LET call == calls[c]
       IN  IF CategoryFindByName(call.userId, call.categoryName) # {}
           THEN /\ calls' = [calls EXCEPT ![c] = Done(call, DatabaseError)]
                /\ UNCHANGED <<categories, created>>
           ELSE /\ categories' = categories \cup
                       {[id |-> created.categories + 1, userId |-> call.userId,
                         name |-> call.categoryName]}
                /\ created' = [created EXCEPT !.categories = @ + 1]
                /\ calls' = [calls EXCEPT ![c] = Done(call, Succeeded)]
    /\ UNCHANGED <<users, habits, storedRecords, lastToggle>>
    /\ engineUnchanged

\* deleteCategory(categoryId): authentication and validation of the id
DeleteCategory(c) ==
    /\ Starts(c)
    /\ \E session \in Sessions, categoryId \in CategoryIds \cup {Null} :
         calls' = [calls EXCEPT ![c] =
                     FirstStep([NewCall("deleteCategory", session) EXCEPT
                                   !.categoryId = categoryId],
                               IdInvalid(categoryId), "category.findUnique")]

\* deleteCategory: the ownership query, and the return when it finds nothing
DeleteCategoryFindUnique(c) ==
    /\ calls[c].action = "deleteCategory"
    /\ calls[c].pc = "category.findUnique"
    /\ LET call == [calls[c] EXCEPT !.dbAccess = TRUE]
       IN  calls' = [calls EXCEPT ![c] =
                       IF CategoryFindUnique(call.categoryId, call.userId) = {}
                       THEN Done(call, PermissionDenied)
                       ELSE [call EXCEPT !.pc = "category.delete"]]
    /\ tablesUnchanged
    /\ engineUnchanged

\* the Habit table left as it is when a category is deleted
SetNullSkipped(categoryId) == habits

\* FOREIGN KEY ("categoryId") REFERENCES "Category"("id") ON DELETE SET NULL
SetNull(categoryId) ==
    {IF h.categoryId = categoryId THEN [h EXCEPT !.categoryId = Null] ELSE h : h \in habits}

\* deleteCategory: prisma.category.delete({ where: { id } }); the habits of
\* the category keep existing, with categoryId null (ON DELETE SET NULL)
DeleteCategoryDelete(c) ==
    /\ calls[c].action = "deleteCategory"
    /\ calls[c].pc = "category.delete"
    /\ LET call == calls[c]
           row == {g \in categories : g.id = call.categoryId}
       IN  IF row = {}
           THEN /\ calls' = [calls EXCEPT ![c] = Done(call, DatabaseError)]
                /\ UNCHANGED <<habits, categories>>
           ELSE /\ categories' = categories \ row
                /\ habits' = SetNull(call.categoryId)
                /\ calls' = [calls EXCEPT ![c] = Done(call, Succeeded)]
    /\ UNCHANGED <<users, storedRecords, created, lastToggle>>
    /\ engineUnchanged

\* the caller takes the result of a finished call
Return(c) ==
    /\ calls[c].pc = "done"
    /\ calls' = [calls EXCEPT ![c] = Idle]
    /\ tablesUnchanged
    /\ engineUnchanged

----------------------------------------------------------------------------
(* components/DailyHabitView.tsx: the page that shows the habits of the
   signed-in user with their streaks and last-7-days percentage *)

\* "Authentication required to view habits."
NotSignedIn == [success |-> FALSE, errors |-> "none", message |-> "Authentication required."]

\* the clock when the page is rendered: noon of a toggled day or of the next
RenderClocks == {d * MsPerDay + Noon : d \in 0..(MaxStoreDay + 1)}

RECURSIVE RecordsOf(_)
\* rows of the HabitRecord table as the record collection the engine takes
RecordsOf(rows) ==
    IF rows = {} THEN <<>>
    ELSE LET first == CHOOSE r \in rows :
                          \A q \in rows : r.date < q.date \/ (r.date = q.date /\ r.id <= q.id)
         IN  <<[date |-> first.date, completed |-> first.completed]>>
                 \o RecordsOf(rows \ {first})

\* getEndOfDayUTC: the start of the next UTC day
getEndOfDayUTC(date) == getStartOfDayUTC(date) + MsPerDay

\* include: { records: { where: { date: { gte: startOfToday, lt: endOfToday } },
\* take: 1 } }: the collections the query can hand over for the habit
FetchedRecords(habitId, today) ==
    LET inRange == {r \in storedRecords :
                       /\ r.habitId = habitId
                       /\ r.date >= getStartOfDayUTC(today)
                       /\ r.date < getEndOfDayUTC(today)}
    IN  IF inRange = {} THEN {<<>>} ELSE {RecordsOf({r}) : r \in inRange}

\* the start of the period: getUTCDate(new Date(Date.UTC(year, month, date - 6)))
StartDatePeriod(todayUTC) ==
    LET f == getUTCFields(todayUTC \div MsPerDay)
    IN  getUTCDateAnalytics(DateUTC(f.year, f.month, f.date - 6) * MsPerDay)

\* what the card of a habit shows when the engine is handed `fetched`
CardsOf(fetched, clock) ==
    LET todayUTC == getUTCDateAnalytics(clock)
    IN  {[currentStreak |-> streaks.currentStreak,
          longestStreak |-> streaks.longestStreak,
          completionPercentageLast7Days |->
              calculateCompletionPercentage(FALSE, fetched,
                                            StartDatePeriod(todayUTC), todayUTC)] :
            streaks \in calculateStreaks(FALSE, fetched, clock, clock)}

\* prisma.habit.findMany({ where: { userId, categoryId? } }): the ids found
HabitsFound(userId, filter) ==
    {h.id : h \in {g \in habits : /\ g.userId = userId
                                  /\ filter # Null => g.categoryId = filter}}

\* the pages the component can render: per habit found, a card computed
\* from the records fetched for it
PagesOf(userId, filter, clock) ==
    LET found == HabitsFound(userId, filter)
        cards(h) == UNION {CardsOf(rows, clock) : rows \in FetchedRecords(h, clock)}
    IN  {page \in [found -> UNION {cards(h) : h \in found}] :
            \A h \in found : page[h] \in cards(h)}

\* DailyHabitView({ currentCategoryFilter }): authentication
DailyHabitView(c) ==
    /\ Starts(c)
    /\ \E session \in Sessions, filter \in CategoryIds \cup {Null} :
         LET call == [NewCall("DailyHabitView", session) EXCEPT !.categoryId = filter]
         IN  calls' = [calls EXCEPT ![c] =
                         IF AuthFails(session) THEN Done(call, NotSignedIn)
                         ELSE [call EXCEPT !.pc = "habit.findMany"]]

\* DailyHabitView: the query and the rendering of the cards
DailyHabitViewRender(c) ==
    /\ calls[c].action = "DailyHabitView"
    /\ calls[c].pc = "habit.findMany"
    /\ \E clock \in RenderClocks :
         \E page \in PagesOf(calls[c].userId, calls[c].categoryId, clock) :
            calls' = [calls EXCEPT ![c] =
                        [Done([calls[c] EXCEPT !.dbAccess = TRUE], Succeeded) EXCEPT
                            !.date = clock, !.view = page]]
    /\ tablesUnchanged
    /\ engineUnchanged

InitStore ==
    /\ NoEngineCall
    /\ DatesIdle
    /\ StoreIdle
    /\ CheckboxIdle

NextStore ==
    \E c \in Calls :
        \/ DeleteHabit(c) \/ DeleteHabitFindUnique(c) \/ DeleteHabitDelete(c)
        \/ EditHabit(c) \/ EditHabitFindUnique(c) \/ EditHabitUpdate(c)
        \/ ToggleHabitCompletion(c) \/ ToggleFindUnique(c)
        \/ ToggleUpsert(c) \/ ToggleUpsertRead(c) \/ ToggleUpsertWrite(c)
        \/ AddHabitWithState(c) \/ AddHabitUpsertUser(c) \/ AddHabitCreate(c)
        \/ CreateCategory(c) \/ CreateCategoryFindUnique(c) \/ CreateCategoryCreate(c)
        \/ DeleteCategory(c) \/ DeleteCategoryFindUnique(c) \/ DeleteCategoryDelete(c)
        \/ DailyHabitView(c) \/ DailyHabitViewRender(c)
        \/ Return(c)

SpecStore == InitStore /\ [][NextStore]_vars

----------------------------------------------------------------------------
(* components/HabitCheckbox.tsx: the checkbox of a habit card, in its two
   versions: src/components/HabitCheckbox.tsx, and the one kept in
   src/components/CategoryManagement.tsx, which follows the
   initialCompleted prop with an effect *)

WithoutSync == "src/components/HabitCheckbox.tsx"
WithSync == "src/components/CategoryManagement.tsx"
Components == {WithoutSync, WithSync}

\* toggleHabitCompletion({ habitId, date, completed }): the one argument is an
\* object, so habitId is no string and date and completed are undefined
ArgumentsInvalid(version) == version = WithoutSync

\* what the toggleHabitCompletion call of the component can return
ToggleResults(version) ==
    {FirstStep(NewCall("toggleHabitCompletion", session),
               ArgumentsInvalid(version), "habit.findUnique").result :
        session \in (IF ArgumentsInvalid(version) THEN Sessions ELSE Sessions \ Users)}
      \cup (IF ArgumentsInvalid(version) THEN {}
            ELSE {PermissionDenied, DatabaseError, Succeeded})

\* isPending ? <Loader2 /> : <Checkbox disabled={isPending} />
Disabled == isPending

\* useEffect(() => { setIsChecked(initialCompleted) }, [initialCompleted])
SyncedWithProp(version) == version = WithSync

\* the revert that leaves the shown value as it is
RevertSkipped(completed) == isChecked

\* setIsChecked(!newCompletedState) / setIsCompleted(!checked)
Reverted(completed) == ~completed

\* useState(initialCompleted): the component is mounted
InitCheckbox ==
    /\ NoEngineCall
    /\ DatesIdle
    /\ StoreIdle
    /\ component \in Components
    /\ initialCompleted \in BOOLEAN
    /\ isChecked = initialCompleted
    /\ isPending = FALSE
    /\ requests = <<>>
    /\ toggleResult = NoToggleResult

\* handleCheckedChange(checked) / handleToggle(checked): the user clicks the
\* checkbox, which hands over the opposite of the value it shows; the state
\* is set at once and the call is started in a transition
HandleCheckedChange ==
    /\ ~Disabled
    /\ LET checked == ~isChecked
       IN  /\ isChecked' = checked
           /\ requests' = Append(requests,
                                 [completed |-> checked, before |-> isChecked,
                                  resynced |-> FALSE])
    /\ isPending' = TRUE
    /\ UNCHANGED <<component, initialCompleted, toggleResult>>
    /\ UNCHANGED <<engineVars, dateVars, storeVars>>

\* the call of a toggle in flight settles: result.success keeps the state,
\* success:false and an error thrown by the call revert it; the transition
\* is pending while a call of it is not settled
Settle ==
    \E i \in 1..Len(requests) :
        \E threw \in BOOLEAN :
            \E result \in (IF threw THEN {Idle.result} ELSE ToggleResults(component)) :
                LET request == requests[i]
                    rest == SubSeq(requests, 1, i - 1) \o SubSeq(requests, i + 1, Len(requests))
                IN  /\ isChecked' = IF ~threw /\ result.success THEN isChecked
                                    ELSE Reverted(request.completed)
                    /\ requests' = rest
                    /\ isPending' = (rest # <<>>)
                    /\ toggleResult' = [completed |-> request.completed,
                                        before |-> request.before,
                                        resynced |-> request.resynced,
                                        threw |-> threw, result |-> result]
                    /\ UNCHANGED <<component, initialCompleted>>
                    /\ UNCHANGED <<engineVars, dateVars, storeVars>>

\* the page is rendered again after a revalidation and hands over another
\* initialCompleted; the version with the effect takes it as its state
Rerender ==
    /\ initialCompleted' = ~initialCompleted
    /\ isChecked' = IF SyncedWithProp(component) THEN initialCompleted' ELSE isChecked
    /\ requests' = [i \in 1..Len(requests) |->
                       [requests[i] EXCEPT !.resynced = @ \/ SyncedWithProp(component)]]
    /\ UNCHANGED <<component, isPending, toggleResult>>
    /\ UNCHANGED <<engineVars, dateVars, storeVars>>

NextCheckbox == HandleCheckedChange \/ Settle \/ Rerender

SpecCheckbox == InitCheckbox /\ [][NextCheckbox]_vars

----------------------------------------------------------------------------
(* What the claims speak of: UTC calendar days, stated without the engine *)

DayOf(t) == t \div MsPerDay

IsValidDate(t) == t # NaN /\ t # NotADate

IsMidnight(t) == IsValidDate(t) /\ t % MsPerDay = 0

Max(S) == CHOOSE x \in S : \A y \in S : y <= x

\* the distinct UTC days that have a completed:true record
CompletedDays(records) ==
    {DayOf(records[i].date) :
        i \in {j \in 1..Len(records) :
                 records[j].completed /\ IsValidDate(records[j].date)}}

\* the length of the longest run of consecutive days in S
LongestRunIn(S) ==
    IF S = {} THEN 0
    ELSE Max({k \in 1..Cardinality(S) : \E d \in S : \A j \in 0..(k - 1) : d + j \in S})

\* the largest k with L, L-1, ..., L-(k-1) all in S (L in S)
RunEndingAt(S, L) ==
    Max({k \in 1..Cardinality(S) : \A j \in 0..(k - 1) : L - j \in S})

AllCompletedValid(records) ==
    \A i \in 1..Len(records) : records[i].completed => IsValidDate(records[i].date)

\* the clock did not pass midnight during the call: "today" is one day
OneToday == DayOf(now) = DayOf(now2)

RECURSIVE KeepAt(_, _, _)
\* the records at the positions `keep`, from position i on, in their order
KeepAt(records, keep, i) ==
    IF i > Len(records) THEN <<>>
    ELSE (IF i \in keep THEN <<records[i]>> ELSE <<>>) \o KeepAt(records, keep, i + 1)

RemoveIncomplete(records) ==
    KeepAt(records, {i \in 1..Len(records) : records[i].completed}, 1)

RemoveInvalidDates(records) ==
    KeepAt(records, {i \in 1..Len(records) : IsValidDate(records[i].date)}, 1)

\* one record per distinct day: a completed:true record is dropped when an
\* earlier completed:true record falls on the same UTC day
OnePerDay(records) ==
    KeepAt(records,
           {i \in 1..Len(records) :
              ~(records[i].completed /\
                \E j \in 1..(i - 1) : records[j].completed /\
                                      DayOf(records[j].date) = DayOf(records[i].date))},
           1)

HasRepeatedDay(records) == OnePerDay(records) # records

----------------------------------------------------------------------------
(* Claims *)

\* C1: order-independence.  For every collection and every permutation of it,
\* calculateStreaks returns the same result (same clock) and
\* calculateCompletionPercentage returns the same integer (same window).
C1_OrderIndependence ==
    /\ pc = "streaks" =>
         \A p \in Arrangements(habitRecords) :
            calculateStreaks(absent, p, now, now2) = {streakResult}
    /\ pc = "percentage" =>
         \A p \in Arrangements(habitRecords) :
            calculateCompletionPercentage(absent, p, startDate, endDate) = percentage

\* Order-independence where every completed record has a valid date: both
\* functions return one result for every permutation of the collection.
OrderIndependenceOnValidDates ==
    AllCompletedValid(habitRecords) => C1_OrderIndependence

\* C2: for every input collection, longestStreak is the length of the longest
\* run of consecutive UTC days among the distinct days that have a
\* completed:true record.
C2_LongestStreakIsLongestRun ==
    pc = "streaks" =>
        streakResult.longestStreak = LongestRunIn(CompletedDays(habitRecords))

\* The longest streak is the longest run of consecutive completed days when
\* every completed record has a valid date.
LongestStreakOnValidDates ==
    AllCompletedValid(habitRecords) => C2_LongestStreakIsLongestRun

\* C3: when the last completed day L is today or yesterday, currentStreak is
\* the largest k such that each of L, L-1, ..., L-(k-1) has a completed:true
\* record, several records on one day included.  Stated for collections whose
\* completed records have valid dates and a clock that stays within one day.
C3_CurrentStreakIsBackwardRun ==
    (/\ pc = "streaks"
     /\ OneToday
     /\ AllCompletedValid(habitRecords)
     /\ CompletedDays(habitRecords) # {}
     /\ Max(CompletedDays(habitRecords)) \in {DayOf(now), DayOf(now) - 1})
    => streakResult.currentStreak =
         RunEndingAt(CompletedDays(habitRecords), Max(CompletedDays(habitRecords)))

\* The current streak is the backward run when the completed records have
\* valid dates and no two of them fall on one day.
CurrentStreakOnDistinctDays ==
    ~HasRepeatedDay(habitRecords) => C3_CurrentStreakIsBackwardRun

\* C4: with at least one completed record, currentStreak is 0 if the last
\* completed day is strictly older than yesterday, and at least 1 otherwise
\* (yesterday or any later day).  Stated for collections whose completed
\* records have valid dates and a clock that stays within one day.
C4_LapsedOrAlive ==
    (/\ pc = "streaks"
     /\ OneToday
     /\ AllCompletedValid(habitRecords)
     /\ CompletedDays(habitRecords) # {})
    => IF Max(CompletedDays(habitRecords)) < DayOf(now) - 1
       THEN streakResult.currentStreak = 0
       ELSE streakResult.currentStreak >= 1

\* The current streak is at least 1 exactly when the last completed day is
\* today or yesterday, and 0 when it is older or lies in the future.
AliveOnlyTodayOrYesterday ==
    (/\ pc = "streaks"
     /\ OneToday
     /\ AllCompletedValid(habitRecords)
     /\ CompletedDays(habitRecords) # {})
    => IF Max(CompletedDays(habitRecords)) \in {DayOf(now), DayOf(now) - 1}
       THEN streakResult.currentStreak >= 1
       ELSE streakResult.currentStreak = 0

C6_IncompleteRecordsInvisible ==
    /\ pc = "streaks" =>
         /\ calculateStreaks(absent, habitRecords, now, now2)
              = calculateStreaks(absent, RemoveIncomplete(habitRecords), now, now2)
         /\ streakResult \in calculateStreaks(absent, RemoveIncomplete(habitRecords), now, now2)
         /\ RemoveIncomplete(habitRecords) = <<>> => streakResult = NoResult
    /\ pc = "percentage" =>
         /\ percentage = calculateCompletionPercentage(
                             absent, RemoveIncomplete(habitRecords), startDate, endDate)
         /\ RemoveIncomplete(habitRecords) = <<>> => percentage = 0

\* a completed:false record between the two days of a streak
C6_Witness ==
    /\ pc = "streaks"
    /\ RemoveIncomplete(habitRecords) # habitRecords
    /\ streakResult.currentStreak = 2

\* C7: calculateStreaks drops records whose date is not a valid timestamp: the
\* result is the result on the collection without them.
C7_InvalidDatesDropped ==
    pc = "streaks" =>
        calculateStreaks(absent, RemoveInvalidDates(habitRecords), now, now2) = {streakResult}

\* the nearest integer to num / den (den > 0, num >= 0), a tie going up
Nearest(num, den) ==
    CHOOSE r \in 0..(num \div den + 1) :
        2 * den * r - den <= 2 * num /\ 2 * num < 2 * den * r + den

\* round(100 * n / T) over the days of startDate .. endDate
ExpectedPercentage ==
    LET window == DayOf(startDate)..DayOf(endDate)
        n == Cardinality(CompletedDays(habitRecords) \cap window)
        T == Cardinality(window)
    IN  Nearest(100 * n, T)

C9_PercentageInRange ==
    pc = "percentage" =>
        /\ percentage \in 0..100
        /\ (~absent /\ IsValidDate(startDate) /\ IsValidDate(endDate)
              /\ startDate <= endDate)
            => Cardinality(UniqueCompletedDays(habitRecords, startDate, endDate))
                 <= TotalDaysInPeriod(startDate, endDate)

\* a window whose bounds are not at midnight, every day of it completed
C9_Witness ==
    /\ pc = "percentage"
    /\ IsValidDate(startDate) /\ ~IsMidnight(startDate)
    /\ IsValidDate(endDate) /\ ~IsMidnight(endDate)
    /\ percentage = 100

\* C10: the result is 0 whenever the collection is absent, startDate or
\* endDate is not a valid date, or startDate is after endDate.
C10_InvalidInputGivesZero ==
    (/\ pc = "percentage"
     /\ \/ absent
        \/ ~IsValidDate(startDate)
        \/ ~IsValidDate(endDate)
        \/ startDate > endDate)
    => percentage = 0

\* an invalid endDate with a completed record in the collection
C10_Witness ==
    /\ pc = "percentage"
    /\ ~absent
    /\ IsValidDate(startDate)
    /\ endDate = NaN
    /\ CompletedDays(habitRecords) # {}
    /\ percentage = 0

\* the window of the call is valid: two valid timestamps, startDate <= endDate
ValidWindow ==
    IsValidDate(startDate) /\ IsValidDate(endDate) /\ startDate <= endDate

\* the record's date is unparseable, or its normalized UTC day (the midnight
\* of its day) lies outside [startDate, endDate]
OutsideWindow(record) ==
    \/ ~IsValidDate(record.date)
    \/ DayOf(record.date) * MsPerDay < startDate
    \/ DayOf(record.date) * MsPerDay > endDate

\* C11: for a valid window the result is the same with and without any set
\* of records whose normalized UTC day lies outside [startDate, endDate] or
\* whose date is unparseable, and it is 0 when no record lies inside.
C11_OutsideRecordsInvisible ==
    (pc = "percentage" /\ ~absent /\ ValidWindow) =>
        LET all == 1..Len(habitRecords)
            outside == {i \in all : OutsideWindow(habitRecords[i])}
        IN  /\ \A dropped \in SUBSET outside :
                  calculateCompletionPercentage(
                      absent, KeepAt(habitRecords, all \ dropped, 1),
                      startDate, endDate) = percentage
            /\ outside = all => percentage = 0

\* a completed record before the window and one after it, none inside
C11_Witness ==
    /\ pc = "percentage"
    /\ ~absent
    /\ ValidWindow
    /\ Len(habitRecords) = 2
    /\ habitRecords[1].completed /\ IsValidDate(habitRecords[1].date)
    /\ habitRecords[2].completed /\ IsValidDate(habitRecords[2].date)
    /\ DayOf(habitRecords[1].date) * MsPerDay < startDate
    /\ DayOf(habitRecords[2].date) * MsPerDay > endDate
    /\ percentage = 0

\* C12: getUTCDate maps two valid timestamps to the same value exactly when
\* they fall on the same UTC calendar day, and a timestamp on an earlier day
\* gets a smaller value.
C12_SameValueIffSameDay ==
    normalized # <<>> =>
        /\ (normalized[1] = normalized[2]) <=> (stamps[1].day = stamps[2].day)
        /\ stamps[1].day < stamps[2].day => StampBefore(normalized[1], normalized[2])

\* the year of the timestamp is one that Date.UTC takes as written
YearAsWritten(stamp) == getUTCFields(stamp.day).year \notin 0..99

\* Date normalization for timestamps outside the years 0..99: same value
\* exactly for the same UTC day, the order of days kept, the value the
\* midnight of the timestamp's own day.
DayNormalizationOutsideFirstCentury ==
    (normalized # <<>> /\ YearAsWritten(stamps[1]) /\ YearAsWritten(stamps[2])) =>
        /\ (normalized[1] = normalized[2]) <=> (stamps[1].day = stamps[2].day)
        /\ stamps[1].day < stamps[2].day => StampBefore(normalized[1], normalized[2])
        /\ normalized[1] = [day |-> stamps[1].day, ms |-> 0]

\* C13: neither engine function ever raises an error, whatever the input:
\* an absent collection, records with invalid dates, invalid window bounds.
C13_NeverThrows == outcome # "threw"

\* calculateCompletionPercentage never raises an error, and calculateStreaks
\* raises one only when a completed record's date is not a Date object.
ThrowsOnlyOnNonDate ==
    /\ pc \in {"percentage", "percentageAgain"} => outcome = "returned"
    /\ outcome = "threw" =>
          \E i \in 1..Len(habitRecords) :
              habitRecords[i].completed /\ habitRecords[i].date = NotADate

SameClockDays ==
    DayOf(now) = DayOf(previous.now) /\ DayOf(now2) = DayOf(previous.now2)

HabitsOwnedBy(table, userId) == {h \in table : h.userId = userId}

RecordsOwnedBy(table, habitTable, userId) ==
    {r \in table : \E h \in habitTable : h.id = r.habitId /\ h.userId = userId}

\* the slot c takes a step, and the call in it is a call of `action`
StepOf(c, action) ==
    /\ calls'[c] # calls[c]
    /\ calls[c].action = action \/ calls'[c].action = action

\* the call in the slot c, before or after the step that starts it
CallAt(c) == IF calls[c].pc = "idle" THEN calls'[c] ELSE calls[c]

\* C14: after any sequence and interleaving of toggleHabitCompletion calls
\* the store holds at most one HabitRecord per habit and UTC calendar day.
C14_OneRecordPerHabitAndDay ==
    \A r1, r2 \in storedRecords :
        (r1.habitId = r2.habitId /\ DayOf(r1.date) = DayOf(r2.date)) => r1 = r2

\* two toggles of the one day that has a record have both succeeded, the
\* second has updated the record of the first
C14_Witness ==
    /\ Cardinality(habits) = 1
    /\ created.habits = 1
    /\ Cardinality(storedRecords) = 1
    /\ \A c \in Calls : /\ calls[c].action = "toggleHabitCompletion"
                        /\ calls[c].pc = "done"
                        /\ calls[c].result.success

\* C15: for each habit rendered by DailyHabitView the streaks and the
\* last-7-days percentage shown are the engine's results on all completion
\* records stored for that habit.
C15_CardsFromCompleteHistory ==
    [][\A c \in Calls :
          (calls[c].pc = "habit.findMany" /\ calls'[c].pc = "done") =>
              \A h \in DOMAIN calls'[c].view :
                  calls'[c].view[h] \in
                      CardsOf(RecordsOf({r \in storedRecords : r.habitId = h}),
                              calls'[c].date)]_vars

\* The cards shown are the engine's results on the record of the day of
\* rendering alone.
CardsFromTodaysRecord ==
    [][\A c \in Calls :
          (calls[c].pc = "habit.findMany" /\ calls'[c].pc = "done") =>
              \A h \in DOMAIN calls'[c].view :
                  calls'[c].view[h] \in
                      CardsOf(RecordsOf({r \in storedRecords :
                                            /\ r.habitId = h
                                            /\ DayOf(r.date) = DayOf(calls'[c].date)}),
                              calls'[c].date)]_vars

\* every stored record carries the flag of the latest committed toggle of
\* its habit and day
LastWriteWins ==
    \A r \in storedRecords :
        \E t \in lastToggle :
            t.habitId = r.habitId /\ t.date = r.date /\ t.completed = r.completed

\* a toggle that succeeds on a record which already has the flag asked for
\* leaves the store as it was
RepeatedToggleChangesNothing ==
    \A c \in Calls :
        (/\ StepOf(c, "toggleHabitCompletion")
         /\ calls'[c].pc = "done"
         /\ calls'[c].result.success
         /\ \E r \in storedRecords : /\ r.habitId = calls[c].habitId
                                     /\ r.date = calls[c].date
                                     /\ r.completed = calls[c].completed)
        => /\ storedRecords' = storedRecords
           /\ habits' = habits
           /\ categories' = categories

C18_ToggleFrame ==
    [][\A c \in Calls :
          StepOf(c, "toggleHabitCompletion") =>
              LET call == CallAt(c)
                  target == {r \in storedRecords :
                                /\ r.habitId = call.habitId
                                /\ DayOf(r.date) = DayOf(call.date)}
              IN  /\ habits' = habits
                  /\ categories' = categories
                  /\ users' = users
                  /\ storedRecords \ target \subseteq storedRecords'
                  /\ \A r \in storedRecords' \ storedRecords :
                        r.habitId = call.habitId /\ DayOf(r.date) = DayOf(call.date)
                  /\ Cardinality(storedRecords' \ storedRecords) <= 1
                  /\ Cardinality(storedRecords') >= Cardinality(storedRecords)]_vars

\* a record toggled to false is kept, next to a record of another day
C18_Witness ==
    /\ Cardinality(storedRecords) = 2
    /\ \E r \in storedRecords : ~r.completed
    /\ \E c \in Calls : /\ calls[c].action = "toggleHabitCompletion"
                        /\ calls[c].pc = "done"
                        /\ calls[c].result.success

\* the call asks for a habit (a category) that does not exist or belongs to
\* another user
HabitNotOwned(call) ==
    ~\E h \in habits : h.id = call.habitId /\ h.userId = call.userId

CategoryNotOwned(call) ==
    ~\E g \in categories : g.id = call.categoryId /\ g.userId = call.userId

\* the tables are the same after the step
NothingStored ==
    /\ users' = users
    /\ habits' = habits
    /\ categories' = categories
    /\ storedRecords' = storedRecords

\* deleteHabit, editHabit, toggleHabitCompletion and deleteCategory on a
\* habit or category that is not the caller's return success:false,
\* 'Permission Denied or ... Not Found.', and store nothing
DeniedWhenNotOwned ==
    \A c \in Calls :
        (/\ calls'[c] # calls[c]
         /\ \/ /\ calls[c].action \in {"deleteHabit", "editHabit", "toggleHabitCompletion"}
               /\ calls[c].pc = "habit.findUnique"
               /\ HabitNotOwned(calls[c])
            \/ /\ calls[c].action = "deleteCategory"
               /\ calls[c].pc = "category.findUnique"
               /\ CategoryNotOwned(calls[c]))
        => /\ calls'[c].pc = "done"
           /\ ~calls'[c].result.success
           /\ calls'[c].result.message = "Permission Denied or Not Found."
           /\ NothingStored

\* a step of a call leaves the habits, records and categories of every
\* user other than the caller as they were
NoForeignChange ==
    \A c \in Calls :
        calls'[c] # calls[c] =>
            \A v \in Users \ {CallAt(c).userId} :
                /\ HabitsOwnedBy(habits', v) = HabitsOwnedBy(habits, v)
                /\ HabitsOwnedBy(categories', v) = HabitsOwnedBy(categories, v)
                /\ RecordsOwnedBy(storedRecords', habits', v)
                     = RecordsOwnedBy(storedRecords, habits, v)

\* C19: ownership isolation: a call on a habit or category that does not
\* exist or belongs to another user returns success:false and changes
\* nothing; no user's habits, records or categories are modified or deleted
\* by another user's call.
C19_OwnershipIsolation == [][DeniedWhenNotOwned /\ NoForeignChange]_vars

\* Calls on a habit or category that is not the caller's are denied and
\* change nothing.
DeniedCallsChangeNothing == [][DeniedWhenNotOwned]_vars

\* the server actions of app/actions/habits.ts
ServerActions ==
    {"deleteHabit", "editHabit", "toggleHabitCompletion", "addHabitWithState",
     "createCategory", "deleteCategory"}

\* C20: authentication comes first in every server action: when auth()
\* yields no user id or throws, the action returns success:false with a
\* _form error, and the database is neither read nor written.
C20_AuthenticationFirst ==
    [][\A c \in Calls :
          (/\ calls'[c] # calls[c]
           /\ calls'[c].action \in ServerActions
           /\ calls'[c].userId \in {NoUserId, AuthThrows})
          => /\ calls'[c].pc = "done"
             /\ ~calls'[c].result.success
             /\ calls'[c].result.errors = "_form"
             /\ ~calls'[c].dbAccess
             /\ NothingStored]_vars

\* auth() threw in an editHabit call and gave no user id in a
\* toggleHabitCompletion call, with a habit and a record in the database
C20_Witness ==
    /\ habits # {}
    /\ storedRecords # {}
    /\ \E c, d \in Calls :
          /\ calls[c].action = "editHabit"
          /\ calls[c].userId = AuthThrows
          /\ calls[c].pc = "done"
          /\ calls[d].action = "toggleHabitCompletion"
          /\ calls[d].userId = NoUserId
          /\ calls[d].pc = "done"

\* every stored HabitRecord references an existing Habit
NoOrphanRecords ==
    \A r \in storedRecords : \E h \in habits : h.id = r.habitId

\* a step that completes a deleteHabit call with success leaves no habit of
\* that id and no record of it, and every record of the other habits as it was
DeleteHabitRemovesHabitAndRecords ==
    \A c \in Calls :
        (/\ calls[c].action = "deleteHabit"
         /\ calls'[c].pc = "done"
         /\ calls[c].pc # "done"
         /\ calls'[c].result.success)
        => /\ ~\E h \in habits' : h.id = calls[c].habitId
           /\ ~\E r \in storedRecords' : r.habitId = calls[c].habitId
           /\ {r \in storedRecords' : r.habitId # calls[c].habitId}
                = {r \in storedRecords : r.habitId # calls[c].habitId}
           /\ {h \in habits' : h.id # calls[c].habitId}
                = {h \in habits : h.id # calls[c].habitId}

\* C21: no orphan records: after any sequence and interleaving of server
\* actions (a toggleHabitCompletion racing with a deleteHabit of the same
\* habit included) every stored HabitRecord references an existing Habit;
\* after a successful deleteHabit(h) the habit and all of its records are
\* gone, and the records of the other habits are unchanged.
C21_NoOrphanRecords ==
    [][NoOrphanRecords' /\ DeleteHabitRemovesHabitAndRecords]_vars

\* a deleteHabit has succeeded between the read and the write of a toggle of
\* the same habit, which had found a record of the habit: the habit is gone
\* and no record of it is left
C21_Witness ==
    \E c, d \in Calls :
        /\ calls[c].action = "deleteHabit"
        /\ calls[c].pc = "done"
        /\ calls[c].result.success
        /\ calls[d].action = "toggleHabitCompletion"
        /\ calls[d].pc = "habitRecord.write"
        /\ calls[d].found
        /\ ~\E h \in habits : h.id = calls[d].habitId
        /\ ~\E r \in storedRecords : r.habitId = calls[d].habitId

\* C22: after a successful deleteCategory(c) the category c no longer
\* exists, every habit that had categoryId = c has categoryId null, and no
\* habit or habit record is deleted or otherwise changed.
C22_DeleteCategoryFrame ==
    [][\A c \in Calls :
          (/\ calls[c].action = "deleteCategory"
           /\ calls'[c].pc = "done"
           /\ calls[c].pc # "done"
           /\ calls'[c].result.success)
          => /\ ~\E g \in categories' : g.id = calls[c].categoryId
             /\ {g \in categories' : g.id # calls[c].categoryId}
                  = {g \in categories : g.id # calls[c].categoryId}
             /\ {h.id : h \in habits'} = {h.id : h \in habits}
             /\ \A h \in habits : \A k \in habits' :
                   h.id = k.id =>
                      k = IF h.categoryId = calls[c].categoryId
                          THEN [id |-> h.id, userId |-> h.userId, name |-> h.name,
                                categoryId |-> Null]
                          ELSE h
             /\ storedRecords' = storedRecords
             /\ users' = users]_vars

\* a deleteCategory has succeeded after an editHabit that gave a habit a
\* category; the habit is there, without category
C22_Witness ==
    /\ \E h \in habits : h.categoryId = Null /\ h.name = "read"
    /\ categories = {}
    /\ \E c, d \in Calls :
          /\ calls[c].action = "deleteCategory"
          /\ calls[c].pc = "done"
          /\ calls[c].result.success
          /\ calls[d].action = "editHabit"
          /\ calls[d].pc = "done"
          /\ calls[d].result.success

\* no user has two categories with the same trimmed name
UniqueTrimmedNames ==
    \A g1, g2 \in categories :
        (g1.userId = g2.userId /\ Trim(g1.name) = Trim(g2.name)) => g1 = g2

\* a step of a createCategory call, past its validation, taken while the
\* user has a category of the trimmed name, ends the call with success:false
\* and creates nothing
ExistingNameRefused ==
    \A c \in Calls :
        (/\ calls[c].action = "createCategory"
         /\ calls[c].pc \in {"category.findUnique", "category.create"}
         /\ calls'[c] # calls[c]
         /\ \E g \in categories : /\ g.userId = calls[c].userId
                                  /\ Trim(g.name) = calls[c].categoryName)
        => /\ calls'[c].pc = "done"
           /\ ~calls'[c].result.success
           /\ categories' = categories

\* C23: after any sequence and interleaving of createCategory calls (the
\* existence check and the create are separate steps) no user has two
\* categories with the same trimmed name; a createCategory call whose
\* trimmed name already exists for that user returns success:false and
\* creates nothing, while the same name may exist for different users.
C23_UniqueCategoryNames ==
    [][UniqueTrimmedNames' /\ ExistingNameRefused]_vars

\* two createCategory calls have passed the existence check together; one
\* has created the category and the other has failed on the create
C23_Witness ==
    /\ Cardinality(categories) = 1
    /\ \E c, d \in Calls :
          /\ calls[c].action = "createCategory"
          /\ calls[c].pc = "done"
          /\ calls[c].result.success
          /\ calls[d].action = "createCategory"
          /\ calls[d].pc = "done"
          /\ calls[d].result = DatabaseError

\* two users have a category each, of the same name
SameNameForDifferentUsers ==
    \E g1, g2 \in categories : g1.userId # g2.userId /\ g1.name = g2.name

\* C24: after any sequence of server actions every habit with a non-null
\* categoryId references an existing category that belongs to the same user
\* as the habit.
C24_CategoryOfSameUser ==
    \A h \in habits :
        h.categoryId # Null =>
            \E g \in categories : g.id = h.categoryId /\ g.userId = h.userId

\* Every habit with a non-null categoryId references an existing category,
\* and a habit that addHabitWithState has created has no category.
HabitCategoryExists ==
    [][/\ \A h \in habits' :
             h.categoryId # Null => \E g \in categories' : g.id = h.categoryId
       /\ \A h \in habits' :
             (~\E k \in habits : k.id = h.id) => h.categoryId = Null]_vars

\* a toggle has started in this step / has settled in this step
ToggleStarted == Len(requests') > Len(requests)

ToggleSettled == Len(requests') < Len(requests)

ToggleFailed == toggleResult'.threw \/ ~toggleResult'.result.success

\* a user toggle shows the new value at once
ToggleShowsNewValue ==
    ToggleStarted =>
        /\ isChecked' = ~isChecked
        /\ isChecked' = requests'[Len(requests')].completed

\* a call that returns success:false or throws leaves the value that was
\* shown before the toggle
FailureReverts ==
    (ToggleSettled /\ ToggleFailed) => isChecked' = toggleResult'.before

\* a call that succeeds leaves the new value
SuccessKeepsNewValue ==
    (ToggleSettled /\ ~ToggleFailed) => isChecked' = toggleResult'.completed

\* a call that succeeds leaves the new value, or, when the component was
\* rendered with another initialCompleted while the call was pending and
\* took it as its state, the value of initialCompleted
SuccessKeepsNewValueOrProp ==
    (ToggleSettled /\ ~ToggleFailed) =>
        isChecked' = IF toggleResult'.resynced THEN initialCompleted'
                     ELSE toggleResult'.completed

\* while a call is pending the checkbox is disabled, and at most one toggle
\* request of the checkbox is in flight
OneRequestInFlight ==
    /\ Len(requests') <= 1
    /\ requests' # <<>> => Disabled'
    /\ ToggleStarted => requests = <<>>

====
